---- MODULE Spec2Model ----
(***************************************************************************)
(* Model of the Goncalinho chat backend (src/server.js): the JSON document *)
(* store (db.json + upload directory), the answer cache, and the four      *)
(* HTTP handlers /api/upload, /files, /files/:id and /api/ask.             *)
(*                                                                         *)
(* Handlers run on one event loop: a handler runs without interruption up  *)
(* to its next await, so every action below is the code between two        *)
(* awaits.                                                                 *)
(*                                                                         *)
(* Text is a sequence of pieces [t, len]: a piece of len 1 is the single   *)
(* character t, a longer piece with t = "#" is a run of len filler         *)
(* characters (a character no query contains), and the pieces of the       *)
(* context template carry the template segment and its length.             *)
(***************************************************************************)
EXTENDS Integers, Sequences, FiniteSets, TLC

\* ------------------------------------------------------------------ bounds
MaxReqs == 3
MaxChunks == 2
MaxTicks == 1
MaxSelFiles == 3

\* ------------------------------------------------------- program constants
MAX_CONTEXT_CHARS == 250000
SnippetChars == 30000
stdTTL == 3600
KeywordMinExcl == 3
ScoreStep == 10

\* --------------------------------------------------------------------- text
Str(chars) == [i \in DOMAIN chars |-> [t |-> chars[i], len |-> 1]]

Fill(n) == IF n = 0 THEN <<>> ELSE <<[t |-> "#", len |-> n]>>

Empty == <<>>

RECURSIVE StrLen(_)
StrLen(s) == IF s = <<>> THEN 0 ELSE Head(s).len + StrLen(Tail(s))

\* String.prototype.slice(0, n)
RECURSIVE Slice0(_, _)
Slice0(s, n) ==
    IF s = <<>> \/ n <= 0 THEN <<>>
    ELSE IF Head(s).len <= n
         THEN <<Head(s)>> \o Slice0(Tail(s), n - Head(s).len)
         ELSE <<[t |-> Head(s).t, len |-> n]>>

LowerChar(c) ==
    CASE c = "A" -> "a" [] c = "D" -> "d" [] c = "E" -> "e" [] c = "F" -> "f"
      [] c = "G" -> "g" [] c = "O" -> "o" [] c = "P" -> "p" [] c = "S" -> "s"
      [] c = "U" -> "u" [] OTHER -> c

ToLowerCase(s) == [i \in DOMAIN s |-> [t |-> LowerChar(s[i].t), len |-> s[i].len]]

\* String.prototype.includes
Includes(hay, needle) ==
    \E st \in 0..(Len(hay) - Len(needle)) :
        \A j \in 1..Len(needle) : hay[st + j] = needle[j]

\* String.prototype.split(' ')
RECURSIVE SplitAcc(_, _, _)
SplitAcc(s, cur, acc) ==
    IF s = <<>> THEN Append(acc, cur)
    ELSE IF Head(s) = [t |-> " ", len |-> 1]
         THEN SplitAcc(Tail(s), <<>>, Append(acc, cur))
         ELSE SplitAcc(Tail(s), Append(cur, Head(s)), acc)

SplitSpace(s) == SplitAcc(s, <<>>, <<>>)

SelectSeqLong(toks) == SelectSeq(toks, LAMBDA w : StrLen(w) > KeywordMinExcl)

\* message.toLowerCase().split(' ').filter(w => w.length > 3)
Keywords(message) == SelectSeqLong(SplitSpace(ToLowerCase(message)))

Space == Str(<<" ">>)

\* `${f.name} ${f.caseName} ${f.category} ${f.description}`.toLowerCase()
FullMeta(f) ==
    ToLowerCase(f.name \o Space \o f.caseName \o Space \o f.category
                \o Space \o f.description)

RECURSIVE ScoreFrom(_, _)
ScoreFrom(meta, kws) ==
    IF kws = <<>> THEN 0
    ELSE (IF Includes(meta, Head(kws)) THEN ScoreStep ELSE 0)
         + ScoreFrom(meta, Tail(kws))

Score(f, kws) == ScoreFrom(FullMeta(f), kws)

\* mutant: an item goes before the items of equal score
RECURSIVE InsertBeforeEqual(_, _)
InsertBeforeEqual(sorted, item) ==
    IF sorted = <<>> THEN <<item>>
    ELSE IF Head(sorted).score > item.score
         THEN <<Head(sorted)>> \o InsertBeforeEqual(Tail(sorted), item)
         ELSE <<item>> \o sorted

\* Array.prototype.sort((a, b) => b.score - a.score): stable, descending.
RECURSIVE InsertByScore(_, _)
InsertByScore(sorted, item) ==
    IF sorted = <<>> THEN <<item>>
    ELSE IF Head(sorted).score >= item.score
         THEN <<Head(sorted)>> \o InsertByScore(Tail(sorted), item)
         ELSE <<item>> \o sorted

RECURSIVE SortByScore(_, _)
SortByScore(items, acc) ==
    IF items = <<>> THEN acc
    ELSE SortByScore(Tail(items), InsertByScore(acc, Head(items)))

SortedFiles(files, message) ==
    SortByScore([i \in DOMAIN files |->
                    [file |-> files[i], score |-> Score(files[i], Keywords(message))]],
                <<>>)

Tpl(text, n) == <<[t |-> text, len |-> n]>>

ContentSnippet(f) == IF f.content # <<>> THEN Slice0(f.content, SnippetChars) ELSE <<>>

FileBlock(f) ==
    Tpl("\n--- ARQUIVO: ", 14) \o f.name
    \o Tpl(" ---\nMETADADOS: Categoria: ", 27) \o f.category
    \o Tpl(", Indicador: ", 13) \o f.caseName
    \o Tpl(", Periodo: ", 11) \o f.period
    \o Tpl(", Fonte: ", 9) \o f.source
    \o Tpl(", Desc: ", 8) \o f.description
    \o Tpl("\nCONTEUDO:\n", 11) \o ContentSnippet(f)
    \o Tpl(" \n--- FIM ARQUIVO ---\n", 22)

\* mutant: a block that brings the total to exactly the budget is added
FitsUpToBudget(currentChars, block) == currentChars + StrLen(block) <= MAX_CONTEXT_CHARS

Fits(currentChars, block) == currentChars + StrLen(block) < MAX_CONTEXT_CHARS

\* the packing loop: number of leading items of sortedFiles that are added
RECURSIVE PackLoop(_, _, _, _)
PackLoop(sorted, i, currentChars, selectedContext) ==
    IF i > Len(sorted) THEN [ctx |-> selectedContext, n |-> i - 1]
    ELSE LET fileBlock == FileBlock(sorted[i].file)
         IN  IF Fits(currentChars, fileBlock)
             THEN PackLoop(sorted, i + 1, currentChars + StrLen(fileBlock),
                           selectedContext \o fileBlock)
             ELSE [ctx |-> selectedContext, n |-> i - 1]

BuildContext(sorted) == PackLoop(sorted, 1, 0, <<>>)


\* ------------------------------------------------------------ input domains
Saude == Str(<<"s","a","u","d","e">>)
Geral == Str(<<"G","e","r","a","l">>)

NameCsv == Str(<<"S","a","u","d","e",".","c","s","v">>)
NameZip == Str(<<"p","i","b"," ","f",".","z","i","p">>)
NamePdf == Str(<<"p","i","b","_","f",".","P","D","F">>)

Names == {NameCsv, NameZip}

\* the request body field `metadata` after JSON.parse: an object (absent
\* fields are the empty string), or null
NoMeta == [isNull |-> FALSE, category |-> <<>>, description |-> <<>>,
           source |-> <<>>, period |-> <<>>, caseName |-> <<>>]
NullMeta == [NoMeta EXCEPT !.isNull = TRUE]
MetaSaude == [NoMeta EXCEPT !.category = Saude,
                            !.description = Str(<<"p","i","b","s">>)]

\* raw `metadata` form field: absent, not JSON, "null", or an object
RawMetas == {"absent", "invalid", "null", "object"}

MsgSaude == Str(<<"S","A","U","D","E"," ","p","i","b">>)
MsgGeral == Str(<<"g","e","r","a","l">>)

Messages == {MsgSaude, MsgGeral}
HistLens == {0, 1}

ChunkTexts == {<<>>, Str(<<"a">>)}

\* what the upstream client throws
Errors == {[status |-> 429, has429 |-> FALSE, hasQuota |-> FALSE],
           [status |-> 500, has429 |-> FALSE, hasQuota |-> FALSE]}

FileChars == 40000
TtlMs == stdTTL * 1000

\* ------------------------------------------------- client: chart extraction
\* The client reads the answer as text; the chart post-processing sees it as
\* lexemes. A piece of text is one lexeme: a brace, a comma, a colon, white
\* space, a code-fence marker (three backquotes, written ''' here), a JSON
\* string, number or null, or prose.
Quoted(content, n) == [t |-> content, len |-> n + 2, q |-> TRUE]
Lexeme(text, n) == [t |-> text, len |-> n, q |-> FALSE]

IsQuoted(p) == "q" \in DOMAIN p /\ p.q

Kind(p) ==
    IF IsQuoted(p) THEN "str"
    ELSE CASE p.t = "{" -> "lb"
           [] p.t = "}" -> "rb"
           [] p.t = "," -> "comma"
           [] p.t = ":" -> "colon"
           [] p.t \in {" ", "\n"} -> "ws"
           [] p.t = "'''json" -> "fencejson"
           [] p.t = "'''" -> "fence"
           [] p.t \in {"0", "1"} -> "num"
           [] p.t = "null" -> "null"
           [] OTHER -> "word"

\* a parsed JSON value: k its type, v its text, n the length of a string
\* value, m the members of an object in source order
NoVal == [k |-> "none", v |-> "", n |-> 0, m |-> <<>>]
Scalar(p) == [k |-> Kind(p), v |-> p.t, n |-> IF IsQuoted(p) THEN p.len - 2 ELSE p.len,
              m |-> <<>>]
Obj(members) == [k |-> "obj", v |-> "", n |-> 0, m |-> members]

\* fullText.match(/\{[\s\S]*\}/): greedy, from the first "{" to the last "}"
FirstBrace(s) ==
    IF \E i \in DOMAIN s : Kind(s[i]) = "lb"
    THEN CHOOSE i \in DOMAIN s : Kind(s[i]) = "lb" /\ \A j \in 1..(i - 1) : Kind(s[j]) # "lb"
    ELSE 0

LastBrace(s) ==
    IF \E i \in DOMAIN s : Kind(s[i]) = "rb"
    THEN CHOOSE i \in DOMAIN s : Kind(s[i]) = "rb" /\ \A j \in (i + 1)..Len(s) : Kind(s[j]) # "rb"
    ELSE 0

JsonMatch(fullText) ==
    LET a == FirstBrace(fullText)
        b == LastBrace(fullText)
    IN  IF a > 0 /\ b > a
        THEN [found |-> TRUE, text |-> SubSeq(fullText, a, b)]
        ELSE [found |-> FALSE, text |-> <<>>]

\* .replace(marker\s*, ""): every marker goes, with the white space after it
RECURSIVE ReplaceMarker(_, _, _)
ReplaceMarker(s, marker, afterMarker) ==
    IF s = <<>> THEN <<>>
    ELSE IF Kind(Head(s)) = marker THEN ReplaceMarker(Tail(s), marker, TRUE)
    ELSE IF afterMarker /\ Kind(Head(s)) = "ws" THEN ReplaceMarker(Tail(s), marker, TRUE)
    ELSE <<Head(s)>> \o ReplaceMarker(Tail(s), marker, FALSE)

\* .replace(/```json\s*/g, "").replace(/```\s*/g, "")
CleanJson(matched) == ReplaceMarker(ReplaceMarker(matched, "fencejson", FALSE), "fence", FALSE)

\* JSON.parse: objects of string keys, string, number and null values, nested
\* objects, white space between tokens; anything else is a SyntaxError
RECURSIVE SkipWs(_, _)
SkipWs(toks, i) ==
    IF i <= Len(toks) /\ Kind(toks[i]) = "ws" THEN SkipWs(toks, i + 1) ELSE i

SyntaxError == [ok |-> FALSE, pos |-> 0, val |-> NoVal]

RECURSIVE ParseValue(_, _)
RECURSIVE ParseMembers(_, _, _)
ParseValue(toks, i) ==
    LET j == SkipWs(toks, i)
    IN  IF j > Len(toks) THEN SyntaxError
        ELSE IF Kind(toks[j]) \in {"str", "num", "null"}
        THEN [ok |-> TRUE, pos |-> j + 1, val |-> Scalar(toks[j])]
        ELSE IF Kind(toks[j]) = "lb"
        THEN LET e == SkipWs(toks, j + 1)
             IN  IF e <= Len(toks) /\ Kind(toks[e]) = "rb"
                 THEN [ok |-> TRUE, pos |-> e + 1, val |-> Obj(<<>>)]
                 ELSE ParseMembers(toks, j + 1, <<>>)
        ELSE SyntaxError

ParseMembers(toks, i, acc) ==
    LET a == SkipWs(toks, i)
    IN  IF a > Len(toks) \/ Kind(toks[a]) # "str" THEN SyntaxError
        ELSE LET b == SkipWs(toks, a + 1)
             IN  IF b > Len(toks) \/ Kind(toks[b]) # "colon" THEN SyntaxError
                 ELSE LET v == ParseValue(toks, b + 1)
                      IN  IF ~v.ok THEN SyntaxError
                          ELSE LET c == SkipWs(toks, v.pos)
                                   acc2 == Append(acc, [key |-> toks[a].t, val |-> v.val])
                               IN  IF c > Len(toks) THEN SyntaxError
                                   ELSE IF Kind(toks[c]) = "comma"
                                   THEN ParseMembers(toks, c + 1, acc2)
                                   ELSE IF Kind(toks[c]) = "rb"
                                   THEN [ok |-> TRUE, pos |-> c + 1, val |-> Obj(acc2)]
                                   ELSE SyntaxError

JSONParse(toks) ==
    LET v == ParseValue(toks, 1)
    IN  IF v.ok /\ SkipWs(toks, v.pos) > Len(toks)
        THEN [ok |-> TRUE, val |-> v.val]
        ELSE [ok |-> FALSE, val |-> NoVal]

\* parsed.key: the last member of that name, undefined (NoVal) if there is none
RECURSIVE GetFrom(_, _, _)
GetFrom(members, key, i) ==
    IF i = 0 THEN NoVal
    ELSE IF members[i].key = key THEN members[i].val
    ELSE GetFrom(members, key, i - 1)

Get(parsed, key) == GetFrom(parsed.m, key, Len(parsed.m))

\* JavaScript truthiness of a parsed value
Truthy(val) ==
    CASE val.k = "none" -> FALSE
      [] val.k = "null" -> FALSE
      [] val.k = "num"  -> val.v # "0"
      [] val.k = "str"  -> val.n > 0
      [] OTHER          -> TRUE

Placeholder == Tpl("Grafico gerado:", 15)

\* fullText.includes("```")
HasFence(fullText) == \E i \in DOMAIN fullText : Kind(fullText[i]) \in {"fence", "fencejson"}

\* the text a string value shows as
ShownAs(val) == Tpl(val.v, val.n)

\* mutant: the placeholder is never used
DisplayTextNoPlaceholder(parsed, fullText) ==
    IF Truthy(Get(parsed, "message")) THEN ShownAs(Get(parsed, "message")) ELSE fullText

\* parsed.message || (fullText.includes("```") ? "Grafico gerado:" : fullText)
DisplayText(parsed, fullText) ==
    IF Truthy(Get(parsed, "message")) THEN ShownAs(Get(parsed, "message"))
    ELSE IF HasFence(fullText) THEN Placeholder
    ELSE fullText

\* the post-processing of streamResponse on the whole answer
ExtractChart(fullText) ==
    LET jsonMatch == JsonMatch(fullText)
        parsed == JSONParse(CleanJson(jsonMatch.text))
    IN  IF jsonMatch.found /\ parsed.ok /\ Truthy(Get(parsed.val, "chart"))
        THEN [text |-> DisplayText(parsed.val, fullText), chart |-> Get(parsed.val, "chart")]
        ELSE [text |-> fullText, chart |-> NoVal]

\* answers the upstream model may stream, as chunks
LB == <<Lexeme("{", 1)>>
RB == <<Lexeme("}", 1)>>
Comma == <<Lexeme(",", 1)>>
Colon == <<Lexeme(":", 1)>>
Sp == <<Lexeme(" ", 1)>>
Nl == <<Lexeme("\n", 1)>>
FenceJson == <<Lexeme("'''json", 7)>>
Fence == <<Lexeme("'''", 3)>>
Prose == <<Lexeme("Resultado:", 10)>>
QChart == <<Quoted("chart", 5)>>
QMessage == <<Quoted("message", 7)>>
ChartObj == LB \o <<Quoted("type", 4)>> \o Colon \o <<Quoted("bar", 3)>> \o RB
ChartMember == QChart \o Colon \o ChartObj
MessageIs(v) == QMessage \o Colon \o v

JsonBodies ==
    { LB \o ChartMember \o RB,
      LB \o Sp \o QChart \o Sp \o Colon \o Nl \o ChartObj \o Nl \o RB,
      LB \o ChartMember \o Comma \o MessageIs(<<Quoted("ok", 2)>>) \o RB,
      LB \o MessageIs(<<Quoted("", 0)>>) \o Comma \o ChartMember \o RB,
      LB \o ChartMember \o Comma \o MessageIs(<<Lexeme("null", 4)>>) \o RB,
      LB \o QChart \o Colon \o <<Lexeme("null", 4)>> \o RB,
      LB \o QChart \o Colon \o <<Lexeme("0", 1)>> \o Comma \o ChartMember \o RB,
      LB \o MessageIs(<<Quoted("ok", 2)>>) \o RB,
      LB \o ChartMember \o Comma \o RB,
      LB \o RB }

ChartChunks ==
    { pre \o body \o post : pre \in {<<>>, Prose \o Sp, FenceJson \o Nl},
                             body \in JsonBodies,
                             post \in {<<>>, Nl \o Fence, Sp \o Prose} }
    \cup {<<>>, Prose, LB \o QChart, RB \o Sp \o LB, Fence}

\* -------------------------------------------------------------------- state
VARIABLES
    dbFile,     \* files array stored in db.json
    disk,       \* paths of the physical files under UPLOAD_DIR
    cache,      \* appCache: key -> entry
    now,        \* Date.now()
    ticks,      \* number of clock advances so far
    faults,     \* whether file-system calls may fail
    req,        \* the requests, in arrival order
    nreq,       \* number of requests that have arrived
    flushes     \* number of appCache.flushAll() calls so far

vars == <<dbFile, disk, cache, now, ticks, faults, req, nreq, flushes>>

Reqs == 1..MaxReqs

NoFile ==
    [id |-> 0, name |-> <<>>, path |-> <<0, <<>>>>, type |-> <<>>, content |-> <<>>,
     timestamp |-> 0, category |-> <<>>, description |-> <<>>, source |-> <<>>,
     period |-> <<>>, caseName |-> <<>>]

Blank ==
    [kind |-> "none", pc |-> "idle", pred |-> {}, tArrive |-> 0,
     mutsSeen |-> 0, flushesSeen |-> 0,
     \* response
     status |-> 0, json |-> "none", body |-> <<>>, ended |-> 0,
     \* /api/ask
     message |-> <<>>, hlen |-> 0, apiKey |-> FALSE, hit |-> FALSE,
     calls |-> 0, cacheGets |-> 0, cacheSets |-> 0, dbReads |-> 0,
     sortedFiles |-> <<>>, nsel |-> 0, ctx |-> <<>>, fullText |-> <<>>,
     failed |-> FALSE, errMsg |-> <<>>, tSet |-> 0, flushesAtEnd |-> 0, mutsAtEnd |-> 0,
     \* /api/upload
     name |-> <<>>, meta |-> NoMeta, path |-> <<0, <<>>>>, content |-> <<>>,
     readerThrew |-> FALSE, newFile |-> NoFile, wrote |-> FALSE, stored |-> FALSE,
     \* DELETE /files/:id
     id |-> 0, found |-> FALSE, recGone |-> FALSE, fileGone |-> FALSE,
     changed |-> FALSE,
     \* GET /files
     files |-> <<>>,
     \* the client: what streamResponse returned for this answer
     shown |-> FALSE, client |-> [text |-> <<>>, chart |-> NoVal]]

Done(r) == req[r].pc = "done"
DoneSet == {r \in Reqs : Done(r)}

\* upload and delete requests whose handler has run to its end
MutsHandled ==
    Cardinality({r \in Reqs : Done(r) /\ req[r].kind \in {"upload", "delete"}})

ReadOutcomes == IF faults THEN BOOLEAN ELSE {TRUE}
WriteOutcomes == IF faults THEN BOOLEAN ELSE {TRUE}
UnlinkOutcomes == IF faults THEN BOOLEAN ELSE {TRUE}

\* ------------------------------------------------------------------- store
readDb(ok) == IF ok THEN dbFile ELSE <<>>

writeDb(files, ok) == IF ok THEN files ELSE dbFile

\* mutant: the record is sent as stored
KeepContent(f) == f

StripContent(f) == [k \in (DOMAIN f) \ {"content"} |-> f[k]]

\* Array.prototype.findIndex(f => f.id === id): 0 stands for -1
RECURSIVE FindFrom(_, _, _)
FindFrom(files, id, i) ==
    IF i > Len(files) THEN 0
    ELSE IF files[i].id = id THEN i ELSE FindFrom(files, id, i + 1)

findIndex(files, id) == FindFrom(files, id, 1)

\* Array.prototype.splice(i, 1)
splice(files, i) ==
    [k \in 1..(Len(files) - 1) |-> IF k < i THEN files[k] ELSE files[k + 1]]

\* ------------------------------------------------------------------- cache
\* mutant: the key leaves the history length out
CacheKeyMessageOnly(message, hlen) == <<message, 0>>

CacheKey(message, hlen) == <<message, hlen>>

Expired(e) == e.t # 0 /\ e.t < now

\* NodeCache.get: the value, or <<>> (undefined) when absent or expired
CacheGet(key) ==
    IF key \in DOMAIN cache /\ ~Expired(cache[key]) THEN cache[key].v ELSE <<>>

\* NodeCache.set with the default ttl
CacheSet(key, text) ==
    [k \in (DOMAIN cache) \cup {key} |->
        IF k = key THEN [v |-> text, t |-> now + stdTTL * 1000] ELSE cache[k]]

EmptyCache == [k \in {} |-> [v |-> <<>>, t |-> 0]]

\* mutant: the cache is left as it is
FlushNothing == cache

FlushAll == EmptyCache

\* ------------------------------------------------------------- extraction
IsDot(p) == p = [t |-> ".", len |-> 1]

RECURSIVE LastDot(_, _)
LastDot(s, i) == IF i = 0 THEN 0 ELSE IF IsDot(s[i]) THEN i ELSE LastDot(s, i - 1)

\* path.extname: from the last dot, unless the name has none or starts with it
ExtName(name) ==
    LET d == LastDot(name, Len(name))
    IN  IF d <= 1 THEN <<>> ELSE SubSeq(name, d, Len(name))

\* String.prototype.replace('.', ''): drops the first dot
RECURSIVE DropFirstDot(_)
DropFirstDot(s) ==
    IF s = <<>> THEN <<>>
    ELSE IF IsDot(Head(s)) THEN Tail(s) ELSE <<Head(s)>> \o DropFirstDot(Tail(s))

SupportedExts ==
    {Str(<<".","c","s","v">>), Str(<<".","t","x","t">>), Str(<<".","j","s","o","n">>),
     Str(<<".","x","l","s","x">>), Str(<<".","x","l","s">>),
     Str(<<".","d","o","c","x">>), Str(<<".","p","d","f">>)}

ErrPlaceholder == Tpl("Erro ao ler arquivo: ", 21) \o Tpl("e.message", 9)

\* extractText: the reader's text, the placeholder when the reader throws,
\* "" for an extension no branch handles
Supported(originalName) == ToLowerCase(ExtName(originalName)) \in SupportedExts

\* mutant: a failing reader leaves the content empty
extractTextNoPlaceholder(originalName, readerThrows, fileText) ==
    IF Supported(originalName) /\ ~readerThrows THEN fileText ELSE <<>>

extractText(originalName, readerThrows, fileText) ==
    IF Supported(originalName)
    THEN IF readerThrows THEN ErrPlaceholder ELSE fileText
    ELSE <<>>

SafeChars ==
    {"a","b","c","d","e","f","g","i","l","p","r","s","u","v","x","z",
     "A","D","E","F","G","O","P","S","U",".","-"}

\* originalname.replace(/[^a-zA-Z0-9.-]/g, '_')
SafeName(name) ==
    [i \in DOMAIN name |->
        IF name[i].t \in SafeChars THEN name[i] ELSE [t |-> "_", len |-> 1]]

\* JSON.parse(req.body.metadata || '{}') inside try/catch
ParseMetadata(raw, obj) ==
    CASE raw = "absent" -> NoMeta
      [] raw = "invalid" -> NoMeta
      [] raw = "null" -> NullMeta
      [] OTHER -> obj

OrDefault(s, d) == IF s # <<>> THEN s ELSE d

NewFile(r) ==
    [id |-> r, name |-> req[r].name, path |-> req[r].path,
     type |-> DropFirstDot(ExtName(req[r].name)),
     content |-> req[r].content, timestamp |-> now,
     category |-> OrDefault(req[r].meta.category, Geral),
     description |-> req[r].meta.description,
     source |-> req[r].meta.source,
     period |-> req[r].meta.period,
     caseName |-> req[r].meta.caseName]


\* ----------------------------------------------------------------- actions
Arrive(r, kind) ==
    [Blank EXCEPT !.kind = kind, !.pred = DoneSet, !.tArrive = now,
                  !.mutsSeen = MutsHandled, !.flushesSeen = flushes]

\* the clock advances
Tick(d) ==
    /\ ticks < MaxTicks
    /\ now' = now + d
    /\ ticks' = ticks + 1
    /\ UNCHANGED <<dbFile, disk, cache, faults, req, nreq, flushes>>

\* POST /api/upload up to `await extractText(...)`: multer stores the file
\* (or there is none: 400), the metadata is parsed, the reader runs
UploadStart(name, raw, hasFile, readerThrows) ==
    /\ nreq < MaxReqs
    /\  LET r == nreq + 1
            path == <<now, SafeName(name)>>
            base == Arrive(r, "upload")
        IN  /\ nreq' = r
            /\ IF ~hasFile
               THEN /\ req' = [req EXCEPT ![r] =
                               [base EXCEPT !.pc = "done", !.status = 400, !.json = "nofile",
                                            !.ended = 1]]
                    /\ disk' = disk
               ELSE /\ req' = [req EXCEPT ![r] =
                               [base EXCEPT !.pc = "extract", !.name = name, !.path = path,
                                    !.meta = ParseMetadata(raw, MetaSaude),
                                    !.readerThrew = readerThrows /\ Supported(name),
                                    !.content = extractText(name, readerThrows, Fill(FileChars))]]
                    /\ disk' = disk \cup {path}
    /\ UNCHANGED <<dbFile, cache, now, ticks, faults, flushes>>

\* POST /api/upload after the await: build the record, read-modify-write the
\* store, flush the cache, answer
UploadFinish(r) ==
    /\ req[r].kind = "upload" /\ req[r].pc = "extract"
    /\ \E rOk \in ReadOutcomes, wOk \in WriteOutcomes :
        IF req[r].meta.isNull
        THEN \* metadata.category throws: caught, 500
             /\ req' = [req EXCEPT ![r].pc = "done", ![r].status = 500,
                                   ![r].json = "processing_failed", ![r].ended = 1]
             /\ UNCHANGED <<dbFile, cache, flushes>>
        ELSE LET newFile == NewFile(r)
                 files == Append(readDb(rOk), newFile)
             IN  /\ dbFile' = writeDb(files, wOk)
                 /\ cache' = FlushAll
                 /\ flushes' = flushes + 1
                 /\ req' = [req EXCEPT ![r].pc = "done", ![r].status = 200,
                                       ![r].json = "success", ![r].ended = 1,
                                       ![r].wrote = wOk,
                                       ![r].stored = (dbFile' = Append(dbFile, newFile)),
                                       ![r].newFile = newFile]
    /\ UNCHANGED <<disk, now, ticks, faults, nreq>>

\* GET /files
ListFiles ==
    /\ nreq < MaxReqs
    /\ \E rOk \in ReadOutcomes :
        LET r == nreq + 1
            files == readDb(rOk)
        IN  /\ nreq' = r
            /\ req' = [req EXCEPT ![r] =
                        [Arrive(r, "list") EXCEPT !.pc = "done", !.status = 200,
                             !.json = "files", !.ended = 1,
                             !.files = [i \in DOMAIN files |-> StripContent(files[i])]]]
    /\ UNCHANGED <<dbFile, disk, cache, now, ticks, faults, flushes>>

\* DELETE /files/:id
DeleteFile(id) ==
    /\ nreq < MaxReqs
    /\ \E rOk \in ReadOutcomes, wOk \in WriteOutcomes, uOk \in UnlinkOutcomes :
        LET r == nreq + 1
            files == readDb(rOk)
            fileIndex == findIndex(files, id)
            base == [Arrive(r, "delete") EXCEPT !.pc = "done", !.status = 200,
                          !.json = "success", !.ended = 1, !.id = id]
        IN  /\ nreq' = r
            /\ IF fileIndex > 0
               THEN /\ disk' = IF files[fileIndex].path \in disk /\ uOk
                               THEN disk \ {files[fileIndex].path}
                               ELSE disk
                    /\ dbFile' = writeDb(splice(files, fileIndex), wOk)
                    /\ cache' = FlushAll
                    /\ flushes' = flushes + 1
                    /\ req' = [req EXCEPT ![r] =
                                [base EXCEPT !.found = TRUE, !.wrote = wOk,
                                     !.changed = (dbFile' # dbFile \/ disk' # disk),
                                     !.path = files[fileIndex].path,
                                     !.recGone = (findIndex(dbFile', id) = 0),
                                     !.fileGone = (files[fileIndex].path \notin disk')]]
               ELSE /\ req' = [req EXCEPT ![r] = base]
                    /\ UNCHANGED <<dbFile, disk, cache, flushes>>
    /\ UNCHANGED <<now, ticks, faults>>


\* NodeCache.get deletes the entry it finds expired
CacheAfterGet(key) ==
    IF key \in DOMAIN cache /\ Expired(cache[key])
    THEN [k \in (DOMAIN cache) \ {key} |-> cache[k]]
    ELSE cache

\* error.status === 429 || message.includes("429") || message.includes("quota")
IsRateLimit(e) == e.status = 429 \/ e.has429 \/ e.hasQuota

QuotaMessage == Tpl("\n\n(!) *O sistema esta com alto volume de dados (Limite de Cota Atingido). ...*", 156)
GenericMessage == Tpl("\n\n[Sistema] Erro ao processar resposta da IA. Verifique logs do servidor.", 73)

ErrorMessage(e) == IF IsRateLimit(e) THEN QuotaMessage ELSE GenericMessage

\* mutant: the credential is not checked
CredentialUnchecked(apiKey) == TRUE

HasCredential(apiKey) == apiKey

\* POST /api/ask up to `await ai.models.generateContentStream(...)`: the
\* credential check, the cache lookup, and on a miss the context assembly
\* and the upstream call
AskStart(message, hlen, apiKey) ==
    /\ nreq < MaxReqs
    /\ \E rOk \in ReadOutcomes :
        LET r == nreq + 1
            base == [Arrive(r, "ask") EXCEPT !.message = message, !.hlen = hlen,
                                             !.apiKey = apiKey]
            cacheKey == CacheKey(message, hlen)
            cachedResponse == CacheGet(cacheKey)
            files == readDb(rOk)
            sorted == SortedFiles(files, message)
            packed == BuildContext(sorted)
        IN  /\ nreq' = r
            /\ IF ~HasCredential(apiKey)
               THEN /\ req' = [req EXCEPT ![r] =
                                [base EXCEPT !.pc = "done", !.status = 500,
                                             !.json = "key_missing", !.ended = 1,
                                             !.mutsAtEnd = MutsHandled,
                                             !.flushesAtEnd = flushes]]
                    /\ cache' = cache
               ELSE IF cachedResponse # <<>>
               THEN /\ req' = [req EXCEPT ![r] =
                                [base EXCEPT !.pc = "done", !.status = 200, !.hit = TRUE,
                                             !.cacheGets = 1, !.ended = 1,
                                             !.body = <<cachedResponse>>,
                                             !.mutsAtEnd = MutsHandled,
                                             !.flushesAtEnd = flushes]]
                    /\ cache' = CacheAfterGet(cacheKey)
               ELSE /\ req' = [req EXCEPT ![r] =
                                [base EXCEPT !.pc = "stream", !.status = 200,
                                     !.cacheGets = 1, !.dbReads = 1, !.calls = 1,
                                     !.sortedFiles =
                                         [i \in DOMAIN sorted |->
                                             [id |-> sorted[i].file.id,
                                              score |-> sorted[i].score]],
                                     !.nsel = packed.n,
                                     !.ctx = packed.ctx]]
                    /\ cache' = CacheAfterGet(cacheKey)
    /\ UNCHANGED <<dbFile, disk, now, ticks, faults, flushes>>

\* one iteration of `for await (const chunk of responseStream)`
AskChunk(r, chunkText) ==
    /\ req[r].kind = "ask" /\ req[r].pc = "stream"
    /\ Len(req[r].body) < MaxChunks
    /\ req' = [req EXCEPT ![r].fullText = IF chunkText # <<>> THEN @ \o chunkText ELSE @,
                           ![r].body = IF chunkText # <<>> THEN Append(@, chunkText) ELSE @]
    /\ UNCHANGED <<dbFile, disk, cache, now, ticks, faults, nreq, flushes>>

\* mutant: a one-character answer is not cached
ShouldCacheLong(fullText) == StrLen(fullText) > 1

ShouldCache(fullText) == StrLen(fullText) > 0

\* mutant: the accumulated text is cached whatever its length
AskCompleteAlwaysCaches(r) ==
    /\ req[r].kind = "ask" /\ req[r].pc = "stream"
    /\ LET cacheKey == CacheKey(req[r].message, req[r].hlen)
       IN  /\ cache' = CacheSet(cacheKey, req[r].fullText)
           /\ req' = [req EXCEPT ![r].pc = "done", ![r].ended = @ + 1,
                                 ![r].cacheSets = 1,
                                 ![r].tSet = now, ![r].flushesAtEnd = flushes,
                                 ![r].mutsAtEnd = MutsHandled]
    /\ UNCHANGED <<dbFile, disk, now, ticks, faults, nreq, flushes>>

\* the stream ends: cache the accumulated text, end the response
AskComplete(r) ==
    /\ req[r].kind = "ask" /\ req[r].pc = "stream"
    /\ LET cacheKey == CacheKey(req[r].message, req[r].hlen)
           store == ShouldCache(req[r].fullText)
       IN  /\ cache' = IF store THEN CacheSet(cacheKey, req[r].fullText) ELSE cache
           /\ req' = [req EXCEPT ![r].pc = "done", ![r].ended = @ + 1,
                                 ![r].cacheSets = IF store THEN 1 ELSE 0,
                                 ![r].tSet = now, ![r].flushesAtEnd = flushes,
                                 ![r].mutsAtEnd = MutsHandled]
    /\ UNCHANGED <<dbFile, disk, now, ticks, faults, nreq, flushes>>

\* mutant: the failure is answered as an HTTP error
OnErrorHttp(q, e) ==
    [q EXCEPT !.pc = "done", !.failed = TRUE, !.errMsg = ErrorMessage(e),
              !.status = 500, !.json = "error", !.ended = @ + 1]

OnError(q, e) ==
    [q EXCEPT !.pc = "done", !.failed = TRUE, !.errMsg = ErrorMessage(e),
              !.body = Append(@, ErrorMessage(e)), !.ended = @ + 1]

\* the upstream call or the stream throws: the catch block
AskFail(r, e) ==
    /\ req[r].kind = "ask" /\ req[r].pc = "stream"
    /\ req' = [req EXCEPT ![r] = [OnError(req[r], e) EXCEPT !.mutsAtEnd = MutsHandled,
                                                             !.flushesAtEnd = flushes]]
    /\ UNCHANGED <<dbFile, disk, cache, now, ticks, faults, nreq, flushes>>

\* request bodies whose history is not an array: none at all (undefined or
\* null), an object without a length, a string of one character; len is what
\* JSON.stringify(history.length) puts in the cache key (-1: "undefined")
NoArrayHistories ==
    {[kind |-> "absent", len |-> 0],
     [kind |-> "object", len |-> -1],
     [kind |-> "string", len |-> 1]}

\* TypeError of `history.filter is not a function`: no status, no "429", no "quota"
FilterTypeError == [status |-> 0, has429 |-> FALSE, hasQuota |-> FALSE]

\* what becomes of the promise an async handler rejects with: nothing awaits
\* it, so the runtime ends the process (its default) or, started with
\* --unhandled-rejections=warn, only logs it and the request is never answered
EscapeOutcomes == {"crashed", "hung"}

\* POST /api/ask with a history that is not an array. `history.length` is
\* read before the try block: with no history it throws out of the handler.
\* Otherwise the key is looked up, and on a miss the context is assembled
\* and `history.filter` throws inside the try block, before the upstream call.
AskNoArray(message, history, apiKey) ==
    /\ nreq < MaxReqs
    /\ \E rOk \in ReadOutcomes, out \in EscapeOutcomes :
        LET r == nreq + 1
            base == [Arrive(r, "ask") EXCEPT !.message = message, !.hlen = history.len,
                                             !.apiKey = apiKey]
            cacheKey == CacheKey(message, history.len)
            cachedResponse == CacheGet(cacheKey)
            files == readDb(rOk)
            sorted == SortedFiles(files, message)
            packed == BuildContext(sorted)
        IN  /\ nreq' = r
            /\ IF ~HasCredential(apiKey)
               THEN /\ req' = [req EXCEPT ![r] =
                                [base EXCEPT !.pc = "done", !.status = 500,
                                             !.json = "key_missing", !.ended = 1,
                                             !.mutsAtEnd = MutsHandled,
                                             !.flushesAtEnd = flushes]]
                    /\ cache' = cache
               ELSE IF history.kind = "absent"
               THEN /\ req' = [req EXCEPT ![r] = [base EXCEPT !.pc = out]]
                    /\ cache' = cache
               ELSE IF cachedResponse # <<>>
               THEN /\ req' = [req EXCEPT ![r] =
                                [base EXCEPT !.pc = "done", !.status = 200, !.hit = TRUE,
                                             !.cacheGets = 1, !.ended = 1,
                                             !.body = <<cachedResponse>>,
                                             !.mutsAtEnd = MutsHandled,
                                             !.flushesAtEnd = flushes]]
                    /\ cache' = CacheAfterGet(cacheKey)
               ELSE /\ req' = [req EXCEPT ![r] =
                                [OnError([base EXCEPT !.status = 200, !.cacheGets = 1,
                                                      !.dbReads = 1, !.nsel = packed.n,
                                                      !.ctx = packed.ctx],
                                         FilterTypeError)
                                    EXCEPT !.mutsAtEnd = MutsHandled,
                                           !.flushesAtEnd = flushes]]
                    /\ cache' = CacheAfterGet(cacheKey)
    /\ UNCHANGED <<dbFile, disk, now, ticks, faults, flushes>>

\* the process runs: no rejection has ended it
Up == \A r \in Reqs : req[r].pc # "crashed"

\* the body of the "Server API Key missing" answer
KeyMissingBody ==
    LB \o <<Quoted("error", 5)>> \o Colon \o <<Quoted("Server API Key missing", 22)>> \o RB

\* what the client's read loop accumulates: the chunks written, decoded
RECURSIVE Concat(_)
Concat(chunks) == IF chunks = <<>> THEN <<>> ELSE Head(chunks) \o Concat(Tail(chunks))

Decoded(r) == IF req[r].json = "key_missing" THEN KeyMissingBody ELSE Concat(req[r].body)

\* streamResponse once the stream of its /api/ask request has ended
StreamResponse(r) ==
    /\ req[r].kind = "ask" /\ Done(r) /\ ~req[r].shown
    /\ req' = [req EXCEPT ![r].shown = TRUE, ![r].client = ExtractChart(Decoded(r))]
    /\ UNCHANGED <<dbFile, disk, cache, now, ticks, faults, nreq, flushes>>

\* ------------------------------------------------------------ specifications
InitServer ==
    /\ dbFile = <<>>
    /\ disk = {}
    /\ cache = EmptyCache
    /\ now = 0
    /\ ticks = 0
    /\ req = [r \in Reqs |-> Blank]
    /\ nreq = 0
    /\ flushes = 0

Init == InitServer /\ faults = FALSE

\* the server with the store changed by one kind of upload and by deletes,
\* and the clock advancing past the cache TTL
Next ==
    \/ \E d \in {TtlMs, TtlMs + 1} : Tick(d)
    \/ UploadStart(NameCsv, "absent", TRUE, FALSE)
    \/ \E r \in Reqs : UploadFinish(r)
    \/ \E id \in Reqs : DeleteFile(id)
    \/ \E hlen \in HistLens, apiKey \in BOOLEAN : AskStart(MsgSaude, hlen, apiKey)
    \/ \E r \in Reqs, c \in ChunkTexts : AskChunk(r, c)
    \/ \E r \in Reqs : AskComplete(r)
    \/ \E r \in Reqs, e \in Errors : AskFail(r, e)

Spec == Init /\ [][Next]_vars

\* the store side: every kind of upload, lists and deletes, the clock in ms
StoreNext ==
    \/ Tick(1)
    \/ \E name \in Names, raw \in RawMetas, hasFile \in BOOLEAN, readerThrows \in BOOLEAN :
          UploadStart(name, raw, hasFile, readerThrows)
    \/ \E r \in Reqs : UploadFinish(r)
    \/ ListFiles
    \/ \E id \in Reqs : DeleteFile(id)

StoreSpec == Init /\ [][StoreNext]_vars

\* the store side on a file system whose reads, writes and unlinks may fail
FaultInit == InitServer /\ faults = TRUE

FaultNext ==
    \/ Tick(1)
    \/ \E hasFile \in BOOLEAN : UploadStart(NameCsv, "object", hasFile, FALSE)
    \/ \E r \in Reqs : UploadFinish(r)
    \/ ListFiles
    \/ \E id \in Reqs : DeleteFile(id)

FaultSpec == FaultInit /\ [][FaultNext]_vars

\* every route on the failing file system, with malformed client input:
\* metadata that does not parse, histories that are not arrays; a process
\* that has ended takes no further step
InputNext ==
    /\ Up
    /\ \/ \E raw \in {"invalid", "object"}, readerThrows \in BOOLEAN :
             UploadStart(NameCsv, raw, TRUE, readerThrows)
       \/ \E r \in Reqs : UploadFinish(r)
       \/ ListFiles
       \/ \E id \in Reqs : DeleteFile(id)
       \/ AskStart(MsgSaude, 1, TRUE)
       \/ \E h \in NoArrayHistories, apiKey \in BOOLEAN : AskNoArray(MsgSaude, h, apiKey)
       \/ \E r \in Reqs : AskChunk(r, Str(<<"a">>))
       \/ \E r \in Reqs : AskComplete(r)
       \/ \E r \in Reqs, e \in Errors : AskFail(r, e)

InputSpec == FaultInit /\ [][InputNext]_vars

\* one question, its answer streamed in chunks that may hold a chart, and
\* the client's post-processing of the whole answer
ChartNext ==
    \/ nreq = 0 /\ \E apiKey \in BOOLEAN : AskStart(MsgSaude, 0, apiKey)
    \/ \E r \in Reqs, c \in ChartChunks : AskChunk(r, c)
    \/ \E r \in Reqs : AskComplete(r)
    \/ \E r \in Reqs, e \in Errors : AskFail(r, e)
    \/ \E r \in Reqs : StreamResponse(r)

ChartSpec == Init /\ [][ChartNext]_vars


\* --------------------------------------------- the selector on its own
\* Collections for the context assembly: records as uploads create them,
\* with metadata long enough for the character budget to matter.
DocA == [NoFile EXCEPT !.name = NameCsv, !.type = Str(<<"c","s","v">>),
                       !.category = Geral, !.content = Fill(FileChars)]
DocB == [NoFile EXCEPT !.name = NameZip, !.type = Str(<<"z","i","p">>),
                       !.category = Str(<<"S","a","u","d","e">>),
                       !.description = Str(<<"p","i","b","s">>),
                       !.source = Fill(219738)]
DocB2 == [DocB EXCEPT !.source = Fill(219737)]
DocC == [NoFile EXCEPT !.name = NamePdf, !.type = Str(<<"P","D","F">>),
                       !.category = Geral, !.caseName = Saude,
                       !.content = ErrPlaceholder]

SelDocs == {DocA, DocB, DocB2, DocC}

SelCollections ==
    UNION {[1..n -> SelDocs] : n \in 0..MaxSelFiles}

Stored(docs) ==
    [i \in DOMAIN docs |-> [docs[i] EXCEPT !.id = i, !.timestamp = i,
                                           !.path = <<i, SafeName(docs[i].name)>>]]

MsgPibs == Str(<<"p","i","b","s"," ","s","a","u","d","e">>)
MsgTwice == Str(<<"s","a","u","d","e"," "," ","S","a","u","d","e">>)
MsgJoin == Str(<<"c","s","v","g","e","r","a","l"," ","p","i","b">>)

SelMessages == {MsgSaude, MsgGeral, MsgPibs, MsgTwice, MsgJoin}

SelInit ==
    /\ \E docs \in SelCollections :
          /\ dbFile = Stored(docs)
          /\ disk = {Stored(docs)[i].path : i \in DOMAIN docs}
    /\ cache = EmptyCache
    /\ now = MaxSelFiles + 1
    /\ ticks = 0
    /\ faults = FALSE
    /\ req = [r \in Reqs |-> Blank]
    /\ nreq = 0
    /\ flushes = 0

SelNext == nreq = 0 /\ \E m \in SelMessages : AskStart(m, 0, TRUE)

SelSpec == SelInit /\ [][SelNext]_vars

\* ------------------------------------------------------------------ claims
Asks == {r \in Reqs : req[r].kind = "ask"}
Uploads == {r \in Reqs : req[r].kind = "upload"}
Deletes == {r \in Reqs : req[r].kind = "delete"}

\* asks that missed the cache and assembled a context
Built == {r \in Asks : req[r].calls = 1}

RECURSIVE FileById(_, _)
FileById(files, id) ==
    IF files = <<>> THEN NoFile
    ELSE IF Head(files).id = id THEN Head(files) ELSE FileById(Tail(files), id)

RankedBlock(r, i) == FileBlock(FileById(dbFile, req[r].sortedFiles[i].id))

RECURSIVE ConcatRanked(_, _)
ConcatRanked(r, k) == IF k = 0 THEN <<>> ELSE ConcatRanked(r, k - 1) \o RankedBlock(r, k)

RECURSIVE PrefixChars(_, _)
PrefixChars(r, k) == IF k = 0 THEN 0 ELSE PrefixChars(r, k - 1) + StrLen(RankedBlock(r, k))

\* C4: the context is the concatenation of the whole blocks of the longest
\* prefix of the ranked documents whose cumulative length stays under
\* 250,000 characters: it never exceeds the budget, no block is cut, and
\* nothing after the first block that does not fit is included.
C4_ContextIsLongestPrefix ==
    \A r \in Built :
        LET n == Len(req[r].sortedFiles)
            k == req[r].nsel
        IN  /\ k \in 0..n
            /\ req[r].ctx = ConcatRanked(r, k)
            /\ StrLen(req[r].ctx) <= 250000
            /\ \A j \in 1..k : PrefixChars(r, j) < 250000
            /\ k < n => PrefixChars(r, k + 1) >= 250000

\* a ranked list of three where the second block would bring the total to
\* exactly the budget and the third, which would fit, is left out
C4_Witness ==
    \E r \in Built :
        /\ Len(req[r].sortedFiles) = 3
        /\ req[r].nsel = 1
        /\ PrefixChars(r, 2) = 250000
        /\ PrefixChars(r, 1) + StrLen(RankedBlock(r, 3)) < 250000

\* the claim's score: 10 per query token of at least 4 characters found,
\* ignoring case, in one of the four metadata fields
ClaimScore(f, message) ==
    LET toks == SplitSpace(message)
        hit(p) == /\ StrLen(toks[p]) >= 4
                  /\ \E fld \in {f.name, f.caseName, f.category, f.description} :
                        Includes(ToLowerCase(fld), ToLowerCase(toks[p]))
    IN  10 * Cardinality({p \in DOMAIN toks : hit(p)})

PosInDb(id) == findIndex(dbFile, id)

\* C5: the ranked list holds every stored document once, each with the
\* claim's score, in non-increasing score order, equal scores in collection
\* order; the context follows that order.
C5_RankedByScoreStable ==
    \A r \in Built :
        LET sf == req[r].sortedFiles
        IN  /\ Len(sf) = Len(dbFile)
            /\ \A i \in DOMAIN dbFile : \E p \in DOMAIN sf : sf[p].id = dbFile[i].id
            /\ \A p \in DOMAIN sf :
                  sf[p].score = ClaimScore(FileById(dbFile, sf[p].id), req[r].message)
            /\ \A p, q \in DOMAIN sf :
                  p < q => /\ sf[p].score >= sf[q].score
                           /\ sf[p].score = sf[q].score => PosInDb(sf[p].id) < PosInDb(sf[q].id)
            /\ req[r].ctx = ConcatRanked(r, req[r].nsel)

\* a scoring document stored after a non-scoring one is ranked before it,
\* and two documents with the same positive score keep their stored order
C5_Witness ==
    \E r \in Built :
        LET sf == req[r].sortedFiles
        IN  /\ Len(sf) = 3
            /\ sf[1].score = 10 /\ sf[2].score = 10 /\ sf[3].score = 0
            /\ sf[1].id = 2 /\ sf[2].id = 3 /\ sf[3].id = 1
            /\ req[r].nsel = 3


\* ------------------------------------------------------- claims on /api/ask
RECURSIVE Flatten(_)
Flatten(writes) == IF writes = <<>> THEN <<>> ELSE Head(writes) \o Flatten(Tail(writes))

\* the text a client has received
Text(r) == Flatten(req[r].body)

\* the upstream stream of ask r ran to its end
Completed(r) == Done(r) /\ req[r].calls = 1 /\ ~req[r].failed

\* ... and relayed some text
Answered(r) == Completed(r) /\ Text(r) # <<>>

SameKey(i, j) == req[i].message = req[j].message /\ req[i].hlen = req[j].hlen

Sequential(j) ==
    \A k, l \in Asks :
        (k < l /\ l <= j /\ SameKey(k, j) /\ SameKey(l, j)) => k \in req[l].pred

C2_Claim ==
    \A i, j \in Asks :
        ( /\ i < j /\ SameKey(i, j) /\ req[j].apiKey
          /\ \E m \in req[j].pred :
                /\ i < m
                /\ \/ m \in Uploads /\ req[m].stored
                   \/ m \in Deletes /\ req[m].found )
        => ~req[j].hit /\ req[j].calls = 1

\* What holds of C2's case: when a request that flushes the cache is handled
\* after the first ask ended, and no same-key ask that was in flight during
\* the flush completed before the second ask arrived, the second ask misses
\* the cache and calls the upstream model.
C2_FlushForcesFreshCall ==
    \A i, j \in Asks :
        ( /\ i < j /\ SameKey(i, j) /\ i \in req[j].pred
          /\ req[j].apiKey
          /\ req[i].flushesAtEnd < req[j].flushesSeen
          /\ \A k \in Asks : (SameKey(k, j) /\ k \in req[j].pred /\ Completed(k))
                                => req[k].flushesAtEnd < req[j].flushesSeen )
        => ~req[j].hit /\ req[j].calls = 1 /\ req[j].cacheGets = 1

\* an answer is cached, a delete of a stored id flushes it, the same
\* question is asked again
C2_Witness ==
    \E i, j \in Asks :
        /\ i < j /\ SameKey(i, j) /\ i \in req[j].pred
        /\ Answered(i)
        /\ req[i].flushesAtEnd < req[j].flushesSeen
        /\ req[j].calls = 1

ErrorMessages == {QuotaMessage, GenericMessage}

\* C6: an ask whose upstream call failed keeps the chunks it had written,
\* appends exactly one of the fixed error messages, ends the response once
\* and stays a 200 text response.
C6_FailureAppendsMessage ==
    \A r \in Asks :
        /\ req[r].ended <= 1
        /\ req[r].failed =>
            LET n == Len(req[r].body)
            IN  /\ Done(r) /\ req[r].ended = 1
                /\ req[r].status = 200 /\ req[r].json = "none"
                /\ n >= 1
                /\ req[r].body[n] \in ErrorMessages
                /\ Flatten(SubSeq(req[r].body, 1, n - 1)) = req[r].fullText
                /\ \A i \in 1..(n - 1) : req[r].body[i] \notin ErrorMessages

\* a rate-limit failure after two chunks, and a failure before any chunk
C6_Witness ==
    /\ \E r \in Asks : req[r].failed /\ Len(req[r].body) = 3
                        /\ req[r].body[3] = QuotaMessage
    /\ \E r \in Asks : req[r].failed /\ Len(req[r].body) = 1
                        /\ req[r].body[1] = GenericMessage

\* C7: without the credential an ask ends as a 500 JSON error before any
\* stream: nothing written, no upstream call, no cache read or write, no
\* read of the store.
C7_NoCredentialIs500 ==
    \A r \in Asks :
        ~req[r].apiKey =>
            /\ Done(r) /\ req[r].status = 500 /\ req[r].json = "key_missing"
            /\ req[r].ended = 1
            /\ req[r].body = <<>> /\ ~req[r].hit
            /\ req[r].calls = 0
            /\ req[r].cacheGets = 0 /\ req[r].cacheSets = 0
            /\ req[r].dbReads = 0

\* an ask without the credential arrives while an unexpired answer for its
\* key is in the cache
C7_Witness ==
    \E i, r \in Asks :
        /\ i < r /\ SameKey(i, r) /\ i \in req[r].pred
        /\ Answered(i) /\ ~req[r].apiKey
        /\ req[r].flushesSeen = req[i].flushesAtEnd
        /\ req[r].tArrive <= req[i].tSet + TtlMs
        /\ CacheKey(req[r].message, req[r].hlen) \in DOMAIN cache


\* --------------------------------------------------- claims on the store
Lists == {r \in Reqs : req[r].kind = "list"}

\* uploads answered with {success: true}
Succeeded == {u \in Uploads : Done(u) /\ req[u].status = 200}

\* deletes of upload u's id handled after u had been answered
DeletesOf(u) == {d \in Deletes : req[d].id = u /\ u \in req[d].pred}

Listed(l, u) == {p \in DOMAIN req[l].files : req[l].files[p].id = u}

\* C3: a list taken after a successful upload holds one record with the
\* upload's name and metadata (category "Geral" when none was given) and no
\* record carries a content field; a list taken after a delete of that id
\* does not hold it; a second delete of the id answers success and changes
\* nothing.
C3_RoundTrip ==
    /\ \A l \in Lists :
        /\ req[l].status = 200
        /\ \A p \in DOMAIN req[l].files : "content" \notin DOMAIN req[l].files[p]
        /\ \A u \in Succeeded :
            u \in req[l].pred =>
                IF \E d \in DeletesOf(u) : d < l
                THEN Listed(l, u) = {}
                ELSE \E p \in DOMAIN req[l].files :
                        LET f == req[l].files[p]
                        IN  /\ Listed(l, u) = {p}
                            /\ f.name = req[u].name
                            /\ f.category = IF req[u].meta.category = <<>>
                                            THEN Str(<<"G","e","r","a","l">>)
                                            ELSE req[u].meta.category
                            /\ f.description = req[u].meta.description
                            /\ f.source = req[u].meta.source
                            /\ f.period = req[u].meta.period
                            /\ f.caseName = req[u].meta.caseName
    /\ \A u \in Succeeded : \A d \in DeletesOf(u) :
        /\ req[d].status = 200 /\ req[d].json = "success"
        /\ IF \E e \in DeletesOf(u) : e < d
           THEN ~req[d].found /\ ~req[d].changed
           ELSE req[d].found
    /\ \A u \in Succeeded : Done(u) => (\E d \in DeletesOf(u) : TRUE) \/ findIndex(dbFile, u) > 0

\* the three steps of the round trip that fit the request bound: an upload
\* without metadata, a delete of its id, a list that no longer shows it
C3_Witness ==
    \E u \in Succeeded, d \in Deletes, l \in Lists :
        /\ d \in DeletesOf(u) /\ d < l /\ req[d].found
        /\ req[u].meta = NoMeta
        /\ Listed(l, u) = {}


\* uploads that carried a file
WithFile == {u \in Uploads : req[u].pc \in {"extract", "done"} /\ req[u].status # 400}

HasSupportedExt(u) ==
    \E e \in SupportedExts : ToLowerCase(ExtName(req[u].name)) = e

\* C8 as stated: extraction never fails an upload; with an unsupported
\* extension the content is empty, with a failing reader it is the
\* placeholder, and in both cases the record is appended and the upload
\* answers success.
C8_Original ==
    \A u \in WithFile :
        (~HasSupportedExt(u) \/ req[u].readerThrew) =>
            /\ ~HasSupportedExt(u) => req[u].content = <<>>
            /\ req[u].readerThrew => req[u].content = ErrPlaceholder
            /\ Done(u) => /\ req[u].status = 200 /\ req[u].json = "success"
                          /\ req[u].stored
                          /\ req[u].newFile.content = req[u].content

\* What holds of C8's case: the same, for uploads whose metadata field is not the JSON
\* value null (that one is answered 500 whatever the extraction did); the
\* record is the last of the collection handed to the store.
C8_ExtractionNeverFailsUpload ==
    \A u \in WithFile :
        (~HasSupportedExt(u) \/ req[u].readerThrew) =>
            /\ ~HasSupportedExt(u) => req[u].content = <<>>
            /\ req[u].readerThrew => req[u].content = ErrPlaceholder
            /\ (Done(u) /\ ~req[u].meta.isNull) =>
                  /\ req[u].status = 200 /\ req[u].json = "success"
                  /\ req[u].wrote => req[u].stored
                  /\ req[u].newFile.content = req[u].content
                  /\ req[u].newFile.name = req[u].name

\* a stored .zip with empty content and a stored .csv whose reader failed
C8_Witness ==
    /\ \E u \in Succeeded : ~HasSupportedExt(u) /\ req[u].stored
                             /\ \E p \in DOMAIN dbFile :
                                   dbFile[p].id = u /\ dbFile[p].content = <<>>
    /\ \E u \in Succeeded : req[u].readerThrew /\ req[u].stored
                             /\ \E p \in DOMAIN dbFile :
                                   dbFile[p].id = u /\ dbFile[p].content = ErrPlaceholder

\* C10 as stated: every stored record's path names a file in the upload
\* directory, and a delete of a stored id removes the record and the file,
\* also when store writes fail.
C10_Claim ==
    /\ \A p \in DOMAIN dbFile : dbFile[p].path \in disk
    /\ \A d \in Deletes : req[d].found => (req[d].recGone /\ req[d].fileGone)


\* With every store call succeeding, the updates of two requests that were
\* both answered with success are both in the store: an upload's record
\* stays until a delete finds it, and a record a delete found is gone.
NoLostUpdate ==
    /\ \A u \in Succeeded :
          (\A d \in Deletes : ~(req[d].id = u /\ req[d].found)) => findIndex(dbFile, u) > 0
    /\ \A d \in Deletes : req[d].found => findIndex(dbFile, req[d].id) = 0


\* the handler of request r has run to its end (or was cut off)
Finished(r) == req[r].pc \in {"done", "hung", "crashed"}

\* a response went out: a status with a JSON body, or a stream that was ended
Responded(r) == req[r].status # 0 /\ (req[r].json # "none" \/ req[r].ended = 1)

\* C11 as stated: whatever fails in the store, the extraction or the upstream
\* model, and whatever malformed metadata or history the client sends, every
\* request that was handled got a response and the server process still runs.
C11_Claim ==
    /\ Up
    /\ \A r \in Reqs : Finished(r) => Responded(r)

\* What holds of C11's case: every request other than an ask that carries
\* the credential and no history is answered, and only such an ask ends the
\* process.
C11_AnsweredUnlessNoHistory ==
    \A r \in Reqs :
        Finished(r) =>
            \/ Responded(r) /\ req[r].pc = "done" /\ req[r].ended = 1
            \/ req[r].kind = "ask" /\ req[r].apiKey /\ req[r].status = 0
               /\ req[r].cacheGets = 0


\* ------------------------------------------- claims on the chart extraction
Shown == {r \in Asks : req[r].shown}

\* the object has a member of that name
HasField(obj, key) == \E i \in DOMAIN obj.m : obj.m[i].key = key

\* the member is there and is none of null, 0 and the empty string
HasValue(obj, key) ==
    /\ HasField(obj, key)
    /\ LET val == Get(obj, key)
       IN  ~(val.k = "null" \/ (val.k = "num" /\ val.v = "0") \/ (val.k = "str" /\ val.n = 0))

\* the brace-delimited match of the answer of r, cleaned and parsed
ParsedMatch(r) == JSONParse(CleanJson(JsonMatch(Decoded(r)).text))

PlainResult(r) == [text |-> Decoded(r), chart |-> NoVal]

\* C12 as stated: with no match, a match that does not parse, or a parsed
\* object without a chart field the result is the original text and no
\* chart; otherwise it carries the chart, and its text is the message field
\* if present, else the placeholder if the text has a code fence, else the
\* original text.
C12_Original ==
    \A r \in Shown :
        IF ~JsonMatch(Decoded(r)).found \/ ~ParsedMatch(r).ok
              \/ ~HasField(ParsedMatch(r).val, "chart")
        THEN req[r].client = PlainResult(r)
        ELSE /\ req[r].client.chart = Get(ParsedMatch(r).val, "chart")
             /\ req[r].client.text =
                    IF HasField(ParsedMatch(r).val, "message")
                    THEN ShownAs(Get(ParsedMatch(r).val, "message"))
                    ELSE IF HasFence(Decoded(r)) THEN Placeholder
                    ELSE Decoded(r)

\* C12 (amended): the same decision order with "has a chart field" and
\* "message field if present" read as JavaScript reads them: a chart that is
\* null, 0 or "" counts as no chart, and a message that is null or "" counts
\* as no message.
C12_ChartDecisionOrder ==
    \A r \in Shown :
        IF ~JsonMatch(Decoded(r)).found \/ ~ParsedMatch(r).ok
              \/ ~HasValue(ParsedMatch(r).val, "chart")
        THEN req[r].client = PlainResult(r)
        ELSE /\ req[r].client.chart = Get(ParsedMatch(r).val, "chart")
             /\ req[r].client.chart # NoVal
             /\ req[r].client.text =
                    IF HasValue(ParsedMatch(r).val, "message")
                    THEN ShownAs(Get(ParsedMatch(r).val, "message"))
                    ELSE IF HasFence(Decoded(r)) THEN Placeholder
                    ELSE Decoded(r)

\* a fenced answer whose object has a chart and an empty message: the chart
\* is carried and the text shown is the placeholder
C12_Witness ==
    \E r \in Shown :
        /\ HasFence(Decoded(r)) /\ ParsedMatch(r).ok
        /\ HasField(ParsedMatch(r).val, "message")
        /\ req[r].client.text = Placeholder
        /\ req[r].client.chart.k = "obj"


\* ------------------------------------------------ claims on the cache writes
\* the upstream stream of r ends in this step, by completion or by failure
StreamEnds(r) == req[r].kind = "ask" /\ req[r].pc = "stream" /\ req'[r].pc = "done"

\* the step adds no entry to the cache and changes none
NoCacheWrite == \A k \in DOMAIN cache' : k \in DOMAIN cache /\ cache'[k] = cache[k]

\* a step in which a stream ends writes the cache iff the stream completed
\* with nonempty text, and then stores the chunks relayed under the key of
\* the request and nothing else; no other step writes the cache
CacheWrittenOnCompletionOnly ==
    /\ \A r \in Reqs :
          StreamEnds(r) =>
            LET key == <<req[r].message, req[r].hlen>>
                relayed == Flatten(req'[r].body)
            IN  IF ~req'[r].failed /\ relayed # <<>>
                THEN /\ key \in DOMAIN cache' /\ cache'[key].v = relayed
                     /\ \A k \in (DOMAIN cache') \ {key} :
                            k \in DOMAIN cache /\ cache'[k] = cache[k]
                ELSE cache' = cache
    /\ (\A r \in Reqs : ~StreamEnds(r)) => NoCacheWrite

\* the upstream call of i failed, or its stream completed without text
Uncached(i) == Done(i) /\ req[i].calls = 1 /\ (req[i].failed \/ req[i].fullText = <<>>)

\* j is the first request with the key of i to arrive after i, and i had
\* ended by then
NextIdentical(i, j) ==
    /\ i < j /\ SameKey(i, j) /\ i \in req[j].pred
    /\ \A k \in Asks : (i < k /\ k < j) => ~SameKey(k, j)

\* C13 as stated: the cache is written only by a stream that completed with
\* nonempty text, with exactly the chunks relayed; a failed or empty answer
\* leaves the cache unchanged, and the next identical request (carrying the
\* credential) calls the upstream model again.
C13_Original ==
    /\ [][CacheWrittenOnCompletionOnly]_vars
    /\ [](\A i, j \in Asks :
            (Uncached(i) /\ NextIdentical(i, j) /\ req[j].apiKey) => req[j].calls = 1)

\* another request with the key of j cached its answer after i had arrived
\* and before j arrived
CachedMeanwhile(i, j) ==
    \E k \in Asks : /\ SameKey(k, j) /\ Answered(k)
                     /\ k \in req[j].pred /\ k \notin req[i].pred

\* C13 (amended): the same, the last part for every later identical request
\* before whose arrival no other request with that key, still streaming
\* when the failed one arrived or started after it, cached its own answer.
C13_FailureNeverCached ==
    /\ [][CacheWrittenOnCompletionOnly]_vars
    /\ [](\A i, j \in Asks :
            ( /\ Uncached(i) /\ i < j /\ SameKey(i, j) /\ i \in req[j].pred
              /\ req[j].apiKey /\ ~CachedMeanwhile(i, j) )
            => ~req[j].hit /\ req[j].calls = 1)

\* a failure after one relayed chunk, then the same question again, which
\* calls the upstream model
C13_Witness ==
    \E i, j \in Asks :
        /\ Uncached(i) /\ req[i].failed /\ Len(req[i].body) = 2
        /\ NextIdentical(i, j) /\ req[j].apiKey
        /\ req[j].calls = 1


\* ------------------------------------------- claims on the cache freshness
\* ids of the records ask r read when it built its context
ReadIds(r) == {req[r].sortedFiles[i].id : i \in DOMAIN req[r].sortedFiles}

\* ids of the records of the collection as it is now
StoredIds == {dbFile[p].id : p \in DOMAIN dbFile}

\* ask r is a request that can have written the entry under key k: it
\* completed with that text under that key at the time the entry was set
WroteEntry(r, k) ==
    /\ Answered(r) /\ k = <<req[r].message, req[r].hlen>>
    /\ cache[k].v = req[r].fullText
    /\ cache[k].t = req[r].tSet + TtlMs

\* C14 as stated: every entry of the cache is an answer whose context was
\* built from the collection as it is now, and every answer served from the
\* cache was built from the collection as it was when it was served, also
\* when an upload or delete is handled while an ask awaits its stream.
C14_Claim ==
    /\ \A k \in DOMAIN cache : \E r \in Asks : WroteEntry(r, k) /\ ReadIds(r) = StoredIds
    /\ \A j \in Asks :
          req[j].hit =>
            \E i \in Asks : /\ i < j /\ SameKey(i, j) /\ Answered(i)
                             /\ Text(j) = req[i].fullText
                             /\ req[i].flushesSeen = req[j].flushesSeen


\* What holds of C14's case: as long as no upload or delete flushed the cache
\* while an ask that went on to complete was awaiting its stream, the cache
\* holds and serves only answers built from the current collection.
FreshUnlessFlushedInFlight ==
    (\A r \in Asks : (Done(r) /\ req[r].calls = 1) => req[r].flushesSeen = req[r].flushesAtEnd)
        => C14_Claim

====
